---------------------------- MODULE Spec2Model ----------------------------
(***************************************************************************)
(* Model of application/utils.py of the Voice-Cloning-App: the background  *)
(* job runner (start_progress_thread, background_task), the logging bridge *)
(* (SocketIOHandler) and the dataset import pipeline (import_dataset).     *)
(*                                                                         *)
(* Python strings are modelled as sequences of tokens, so that startswith, *)
(* endswith, split and replace are computed as the code computes them.     *)
(* The filesystem follows POSIX rules: an open archive stays readable      *)
(* after another job unlinked it.                                          *)
(***************************************************************************)
EXTENDS Integers, Sequences, FiniteSets, TLC

(***************************************************************************)
(* Bounds of the model.                                                    *)
(***************************************************************************)
\* start_progress_thread calls the front end makes
MaxJobs == 2
\* entries of the uploaded archive
MaxEntries == 4
\* lines of metadata.csv after the split on "\n"
MaxLines == 3
\* pieces a log line handed to the handler is put together from
MaxChunks == 3

(***************************************************************************)
(* Clip duration bounds, imported from dataset.clip_generator (line 12).   *)
(***************************************************************************)
MIN_LENGTH == 1
MAX_LENGTH == 10

\* Durations librosa.get_duration may report: both bounds and one past each.
Durations == {MIN_LENGTH - 1, MIN_LENGTH, MAX_LENGTH, MAX_LENGTH + 1}

(***************************************************************************)
(* String helpers over token sequences.                                    *)
(***************************************************************************)
Range(s) == {s[n] : n \in 1..Len(s)}

\* str.startswith
StartsWith(s, p) == Len(s) >= Len(p) /\ SubSeq(s, 1, Len(p)) = p

\* str.endswith
EndsWith(s, p) == Len(s) >= Len(p) /\ SubSeq(s, Len(s) - Len(p) + 1, Len(s)) = p

\* str.split(sep) for a one-token separator: the list of segments
RECURSIVE Split(_, _)
Split(s, sep) ==
  IF sep \notin Range(s) THEN <<s>>
  ELSE LET p == CHOOSE n \in 1..Len(s) :
                  s[n] = sep /\ \A m \in 1..(n - 1) : s[m] # sep
       IN <<SubSeq(s, 1, p - 1)>> \o Split(SubSeq(s, p + 1, Len(s)), sep)

\* str.replace(old, "") : every non-overlapping occurrence removed, left to right
RECURSIVE Remove(_, _)
Remove(s, old) ==
  IF Len(s) = 0 THEN s
  ELSE IF StartsWith(s, old) THEN Remove(SubSeq(s, Len(old) + 1, Len(s)), old)
  ELSE <<s[1]>> \o Remove(SubSeq(s, 2, Len(s)), old)

\* str(n) of the f-string, for the clip counts the bounds allow
Digits == <<"1", "2", "3", "4", "5", "6", "7", "8", "9">>
Str(n) == <<Digits[n]>>

(***************************************************************************)
(* SocketIOHandler.emit: one log line to one event, or an exception.       *)
(***************************************************************************)
NoExc == [type |-> "None", text |-> <<>>]
Exc(type, text) == [type |-> type, text |-> text]

NoPayload == [number |-> <<>>, total |-> <<>>, text |-> <<>>, type |-> "", stacktrace |-> <<>>]

SocketIOHandlerEmit(text) ==
  IF StartsWith(text, <<"Progress">>) THEN
    LET parts == Split(text, "-") IN
    IF Len(parts) < 2 THEN [exc |-> Exc("IndexError", <<"list index out of range">>)]
    ELSE LET nums == Split(parts[2], "/") IN
         IF Len(nums) # 2
         THEN [exc |-> Exc("ValueError", <<"not enough or too many values to unpack">>)]
         ELSE [exc |-> NoExc, event |-> "progress",
               payload |-> [NoPayload EXCEPT !.number = nums[1], !.total = nums[2]]]
  ELSE IF StartsWith(text, <<"Status">>) THEN
    [exc |-> NoExc, event |-> "status",
     payload |-> [NoPayload EXCEPT !.text = Remove(text, <<"Status", " ", "-">>)]]
  ELSE
    [exc |-> NoExc, event |-> "logs", payload |-> [NoPayload EXCEPT !.text = text]]

(***************************************************************************)
(* Archive entry names and destination paths.                              *)
(***************************************************************************)
MetadataName == <<"metadata.csv">>

\* Names an uploaded archive may list, in a canonical listing order.
PoolSeq ==
  << MetadataName,
     <<"wavs", "/", "a", ".wav">>,
     <<"wavs", "/", "b", ".wav">>,
     <<"wavs", "/", "x", "/", "a", ".wav">>,
     <<"wavs", "/", "x", "/", "b", ".wav">>,
     <<"wavs", "/", "a", ".txt">>,
     <<"data", "/", "metadata.csv">> >>
Pool == Range(PoolSeq)

Reverse(s) == [n \in 1..Len(s) |-> s[Len(s) + 1 - n]]

ListOf(S) ==
  LET Keep(n) == n \in S IN SelectSeq(PoolSeq, Keep)

\* Archive listings: up to MaxEntries pool names, in either listing order.
NameLists ==
  UNION {{ListOf(S), Reverse(ListOf(S))} :
           S \in {T \in SUBSET Pool : Cardinality(T) <= MaxEntries}}

\* metadata.csv after the "\r\n" replacement, split on "\n"
MetadataTexts == UNION {[1..m -> {"row", ""}] : m \in 0..MaxLines}

\* wav.split("/")[1]: the second component of the entry name
ClipFileName(wav) == Split(wav, "/")[2]

\* the path convert_audio may return beside the one it was given
Sibling(path) == <<"converted">> \o path

OrigPaths == {ClipFileName(n) : n \in {m \in Pool : Len(Split(m, "/")) >= 2}}
WavPaths == OrigPaths \cup {Sibling(p) : p \in OrigPaths}


(***************************************************************************)
(* import_dataset: structural validation of the archive (lines 156-173).   *)
(***************************************************************************)
HasSlash(x) == "/" \in Range(x)

\* folders = [x.split("/")[0] for x in files_list if "/" in x]
Folders(files_list) == {Split(x, "/")[1] : x \in {y \in Range(files_list) : HasSlash(y)}}

IsWav(x) == StartsWith(x, <<"wavs", "/">>) /\ EndsWith(x, <<".wav">>)

\* A variant that lists the clips last to first.
WavsReversed(files_list) == Reverse(SelectSeq(files_list, IsWav))

\* wavs = [x for x in files_list if x.startswith("wavs/") and x.endswith(".wav")]
Wavs(files_list) == SelectSeq(files_list, IsWav)

NonEmptyRow(row) == row # ""

\* num_metadata_rows = len([row for row in metadata.split("\n") if row])
NumMetadataRows(metadata) == Len(SelectSeq(metadata, NonEmptyRow))

\* A variant without the count cross-check of lines 171-173.
ValidationErrorNoCount(files_list, metadata) ==
  IF MetadataName \notin Range(files_list)
    THEN Exc("AssertionError", <<"Dataset missing metadata.csv">>)
  ELSE IF <<"wavs">> \notin Folders(files_list)
    THEN Exc("AssertionError", <<"Dataset missing wavs folder">>)
  ELSE IF Wavs(files_list) = <<>>
    THEN Exc("AssertionError", <<"No wavs found in wavs folder">>)
  ELSE NoExc

\* The four assertions in the order the code makes them; NoExc when all pass.
ValidationError(files_list, metadata) ==
  IF MetadataName \notin Range(files_list)
    THEN Exc("AssertionError", <<"Dataset missing metadata.csv">>)
  ELSE IF <<"wavs">> \notin Folders(files_list)
    THEN Exc("AssertionError", <<"Dataset missing wavs folder">>)
  ELSE IF Wavs(files_list) = <<>>
    THEN Exc("AssertionError", <<"No wavs found in wavs folder">>)
  ELSE IF Len(Wavs(files_list)) # NumMetadataRows(metadata)
    THEN Exc("AssertionError", <<"Number of wavs and labels do not match">>)
  ELSE NoExc

\* A variant with exist_ok=True.
MakedirsExistOk(exists) == FALSE

\* os.makedirs(path, exist_ok=False) raises when the directory is there
MakedirsRaises(exists) == exists

\* A variant that checks the lower bound only.
DurationOkLowerOnly(duration) == duration >= MIN_LENGTH

\* assert duration >= MIN_LENGTH and duration <= MAX_LENGTH
DurationOk(duration) == duration >= MIN_LENGTH /\ duration <= MAX_LENGTH

\* filenames[path] = new_path on a dict kept in insertion order
DictSet(d, key, val) ==
  IF \E n \in 1..Len(d) : d[n][1] = key
  THEN [n \in 1..Len(d) |-> IF d[n][1] = key THEN <<key, val>> ELSE d[n]]
  ELSE Append(d, <<key, val>>)

(***************************************************************************)
(* State.                                                                  *)
(***************************************************************************)
Jobs == 1..MaxJobs

VARIABLES
  bridge,         \* the log record SocketIOHandler.emit is given, and its outcome
  archive,        \* the uploaded zip: [ok, names, metadata]
  archiveOnDisk,  \* whether the path `dataset` exists
  fs,             \* the destination: dataset_directory and what is in it
  fs0,            \* the destination before the first job started
  requests,       \* how many start_progress_thread calls the front end makes
  thread,         \* the module global `thread`
  pc,             \* where each job's background task is
  loc,            \* import_dataset's locals, per job
  exc,            \* the exception in flight in each job
  failStep,       \* the step at which each job's import_dataset failed
  result,         \* how the task function ended: "none", "returned", "raised"
  raised,         \* what background_task re-raised to its execution context
  ops,            \* history: the filesystem and external calls each job made
  probed,         \* history: every duration get_duration returned, per job
  startedAt,      \* history: the channel's length when each job was started
  channel         \* the events emitted on the '/voice' namespace, in order

vars == <<bridge, archive, archiveOnDisk, fs, fs0, requests, thread, pc, loc, exc,
          failStep, result, raised, ops, probed, startedAt, channel>>

Absent == [kind |-> "absent", clip |-> 0]
OldFile == [kind |-> "old", clip |-> 0]

EmptyDest ==
  [destDir |-> FALSE, wavsDir |-> FALSE, metadata |-> "none", info |-> "none",
   files |-> [p \in WavPaths |-> Absent]]

\* The destination as the front end may find it: missing, a bare directory
\* with a stale metadata.csv, or a dataset imported earlier under that name.
InitialDests ==
  { EmptyDest,
    [EmptyDest EXCEPT !.destDir = TRUE, !.metadata = "old"],
    [EmptyDest EXCEPT !.destDir = TRUE, !.wavsDir = TRUE, !.metadata = "old",
                      !.info = "old", !.files[<<"a", ".wav">>] = OldFile] }

Archives ==
  {[ok |-> TRUE, names |-> nl, metadata |-> m] : nl \in NameLists, m \in MetadataTexts}
  \cup {[ok |-> FALSE, names |-> <<>>, metadata |-> <<>>]}

\* The archives several concurrent jobs are run over: one valid, one invalid.
SimpleArchives ==
  {a \in Archives : /\ a.ok
                    /\ a.metadata = <<"row">>
                    /\ a.names \in {<<MetadataName, PoolSeq[2]>>, <<PoolSeq[2]>>}}

\* The scenarios explored: one job over every archive, two concurrent jobs
\* over the simple archives, more jobs over the simple archive that fails
\* validation.
ArchivesFor(n) ==
  IF n = 1 THEN Archives
  ELSE IF n = 2 THEN SimpleArchives
  ELSE {a \in SimpleArchives : ValidationError(a.names, a.metadata) # NoExc}

NoLoc ==
  [wavs |-> <<>>, i |-> 0, clip_lengths |-> <<>>, filenames |-> <<>>,
   k |-> 0, path |-> <<>>, new_path |-> <<>>]

\* no record handed to the handler outside import_dataset's own lines
NoRecord == [text |-> <<>>, status |-> "none", exc |-> NoExc]

Init ==
  /\ bridge = NoRecord
  /\ requests \in 1..MaxJobs
  /\ archive \in ArchivesFor(requests)
  /\ archiveOnDisk = TRUE
  /\ fs0 \in InitialDests
  /\ fs = fs0
  /\ thread = 0
  /\ pc = [j \in Jobs |-> "idle"]
  /\ loc = [j \in Jobs |-> NoLoc]
  /\ exc = [j \in Jobs |-> NoExc]
  /\ failStep = [j \in Jobs |-> "none"]
  /\ result = [j \in Jobs |-> "none"]
  /\ raised = [j \in Jobs |-> NoExc]
  /\ ops = [j \in Jobs |-> <<>>]
  /\ probed = [j \in Jobs |-> <<>>]
  /\ startedAt = [j \in Jobs |-> 0]
  /\ channel = <<>>

(***************************************************************************)
(* Helpers shared by the actions.                                          *)
(***************************************************************************)
Op(name, clip, path) == [op |-> name, clip |-> clip, path |-> path]

NoneText == <<"None">>

\* socketio.emit(event, payload, namespace="/voice") by job j
Event(j, event, payload) == [job |-> j, event |-> event, payload |-> payload]

\* logging.info(text): the record reaches SocketIOHandler.emit
LogEvent(j, text) ==
  LET h == SocketIOHandlerEmit(text) IN Event(j, h.event, h.payload)

LogRaises(text) == SocketIOHandlerEmit(text).exc # NoExc

\* An exception leaves the `with` block and reaches `except Exception as e`.
Fail(j, e, step) ==
  /\ exc' = [exc EXCEPT ![j] = e]
  /\ failStep' = [failStep EXCEPT ![j] = step]
  /\ pc' = [pc EXCEPT ![j] = "cleanup_exc"]

Goto(j, label) == pc' = [pc EXCEPT ![j] = label]


(***************************************************************************)
(* start_progress_thread and the head of background_task.                  *)
(***************************************************************************)
\* start_progress_thread (lines 75-77): no check of `thread`, a new
\* background task every time, the global overwritten.
StartProgressThread(j) ==
  /\ pc[j] = "idle"
  /\ j <= requests
  /\ \A m \in 1..(j - 1) : pc[m] # "idle"
  /\ thread' = j
  /\ startedAt' = [startedAt EXCEPT ![j] = Len(channel)]
  /\ Goto(j, "sleep")
  /\ UNCHANGED <<bridge, archive, archiveOnDisk, fs, fs0, requests, loc, exc, failStep,
                 result, raised, ops, probed, channel>>

\* socketio.sleep(5) returns and func(logging=logger, **kwargs) is called.
Sleep(j) ==
  /\ pc[j] = "sleep"
  /\ Goto(j, "open")
  /\ UNCHANGED <<bridge, archive, archiveOnDisk, fs, fs0, requests, thread, loc, exc,
                 failStep, result, raised, ops, probed, startedAt, channel>>

(***************************************************************************)
(* import_dataset, step by step.                                           *)
(***************************************************************************)
\* zipfile.ZipFile(dataset, mode="r") and z.namelist() (lines 155-156)
OpenArchive(j) ==
  /\ pc[j] = "open"
  /\ IF ~archiveOnDisk
       THEN Fail(j, Exc("FileNotFoundError", <<"dataset">>), "open")
     ELSE IF ~archive.ok
       THEN Fail(j, Exc("BadZipFile", <<"File is not a zip file">>), "open")
     ELSE /\ Goto(j, "validate")
          /\ UNCHANGED <<exc, failStep>>
  /\ UNCHANGED <<bridge, archive, archiveOnDisk, fs, fs0, requests, thread, loc,
                 result, raised, ops, probed, startedAt, channel>>

\* the four assertions (lines 157-173)
Validate(j) ==
  /\ pc[j] = "validate"
  /\ LET e == ValidationError(archive.names, archive.metadata) IN
     IF e # NoExc
       THEN /\ Fail(j, e, "validate")
            /\ loc' = loc
       ELSE /\ Goto(j, "mkdirs")
            /\ loc' = [loc EXCEPT ![j].wavs = Wavs(archive.names)]
            /\ UNCHANGED <<exc, failStep>>
  /\ UNCHANGED <<bridge, archive, archiveOnDisk, fs, fs0, requests, thread,
                 result, raised, ops, probed, startedAt, channel>>

\* "Creating directory" and the two os.makedirs (lines 175-177)
Mkdirs(j) ==
  /\ pc[j] = "mkdirs"
  /\ channel' = Append(channel, LogEvent(j, <<"Creating directory">>))
  /\ IF MakedirsRaises(fs.destDir)
       THEN /\ Fail(j, Exc("FileExistsError", <<"dataset_directory">>), "mkdirs")
            /\ UNCHANGED <<fs, ops>>
     ELSE IF MakedirsRaises(fs.wavsDir)
       THEN /\ Fail(j, Exc("FileExistsError", <<"audio_folder">>), "mkdirs")
            /\ fs' = [fs EXCEPT !.destDir = TRUE]
            /\ ops' = [ops EXCEPT ![j] = Append(@, Op("mkdir", 0, <<>>))]
     ELSE /\ Goto(j, "save_metadata")
          /\ fs' = [fs EXCEPT !.destDir = TRUE, !.wavsDir = TRUE]
          /\ ops' = [ops EXCEPT ![j] = Append(@, Op("mkdir", 0, <<>>))]
          /\ UNCHANGED <<exc, failStep>>
  /\ UNCHANGED <<bridge, archive, archiveOnDisk, fs0, requests, thread, loc,
                 result, raised, probed, startedAt>>

\* "Saving files", metadata.csv written, the loop's locals set (lines 180-187).
\* The write may fail half way (an I/O error).
SaveMetadata(j) ==
  /\ pc[j] = "save_metadata"
  /\ channel' = Append(channel, LogEvent(j, <<"Saving files">>))
  /\ ops' = [ops EXCEPT ![j] = Append(@, Op("write_metadata", 0, <<>>))]
  /\ \/ /\ fs' = [fs EXCEPT !.metadata = "new"]
        /\ loc' = [loc EXCEPT ![j].i = 0, ![j].clip_lengths = <<>>,
                              ![j].filenames = <<>>]
        /\ Goto(j, "write_clip")
        /\ UNCHANGED <<exc, failStep>>
     \/ /\ fs' = [fs EXCEPT !.metadata = "partial"]
        /\ Fail(j, Exc("OSError", <<"metadata.csv">>), "save_metadata")
        /\ loc' = loc
  /\ UNCHANGED <<bridge, archive, archiveOnDisk, fs0, requests, thread,
                 result, raised, probed, startedAt>>

\* wav = wavs[i]; z.read(wav); open(path, "wb"); f.write(data) (lines 189-193)
WriteClip(j) ==
  /\ pc[j] = "write_clip"
  /\ LET wav == loc[j].wavs[loc[j].i + 1]
         path == ClipFileName(wav)
     IN /\ fs' = [fs EXCEPT !.files[path] = [kind |-> "raw", clip |-> loc[j].i + 1]]
        /\ loc' = [loc EXCEPT ![j].path = path]
        /\ ops' = [ops EXCEPT ![j] = Append(@, Op("write", loc[j].i + 1, path))]
  /\ Goto(j, "convert")
  /\ UNCHANGED <<bridge, archive, archiveOnDisk, fs0, requests, thread, exc, failStep,
                 result, raised, probed, startedAt, channel>>

\* new_path = convert_audio(path), still inside `with open(path, "wb") as f`
\* (line 194): the routine fails, converts in place, or writes a sibling.
ConvertAudio(j) ==
  /\ pc[j] = "convert"
  /\ LET clip == loc[j].i + 1
         path == loc[j].path
     IN \/ /\ Fail(j, Exc("ConvertError", <<"convert_audio">>), "convert")
           /\ ops' = [ops EXCEPT ![j] = @ \o <<Op("convert", clip, path),
                                                Op("close", clip, path)>>]
           /\ UNCHANGED <<fs, loc>>
        \/ \E new_path \in {path, Sibling(path)} :
             /\ fs' = [fs EXCEPT !.files[new_path] = [kind |-> "norm", clip |-> clip]]
             /\ loc' = [loc EXCEPT ![j].new_path = new_path]
             /\ ops' = [ops EXCEPT ![j] = Append(@, Op("convert", clip, path))]
             /\ Goto(j, "probe")
             /\ UNCHANGED <<exc, failStep>>
  /\ UNCHANGED <<bridge, archive, archiveOnDisk, fs0, requests, thread,
                 result, raised, probed, startedAt, channel>>

\* librosa.get_duration, the duration assertion, clip_lengths.append and
\* filenames[path] = new_path (lines 195-201)
ProbeDuration(j) ==
  /\ pc[j] = "probe"
  /\ LET clip == loc[j].i + 1
         path == loc[j].path
     IN \/ /\ Fail(j, Exc("ProbeError", <<"get_duration">>), "probe")
           /\ ops' = [ops EXCEPT ![j] = @ \o <<Op("probe", clip, loc[j].new_path),
                                                Op("close", clip, path)>>]
           /\ UNCHANGED <<loc, probed>>
        \/ \E duration \in Durations :
             /\ probed' = [probed EXCEPT ![j] = Append(@, duration)]
             /\ IF DurationOk(duration)
                  THEN /\ loc' = [loc EXCEPT
                                    ![j].clip_lengths = Append(@, duration),
                                    ![j].filenames = DictSet(@, path, loc[j].new_path)]
                       /\ ops' = [ops EXCEPT ![j] =
                                    Append(@, Op("probe", clip, loc[j].new_path))]
                       /\ Goto(j, "progress")
                       /\ UNCHANGED <<exc, failStep>>
                  ELSE /\ Fail(j, Exc("AssertionError",
                                      <<"invalid duration">> \o loc[j].wavs[clip]),
                               "duration")
                       /\ ops' = [ops EXCEPT ![j] =
                                    @ \o <<Op("probe", clip, loc[j].new_path),
                                           Op("close", clip, path)>>]
                       /\ loc' = loc
  /\ UNCHANGED <<bridge, archive, archiveOnDisk, fs, fs0, requests, thread,
                 result, raised, startedAt, channel>>


\* A variant with the two numbers the other way round.
ProgressLineSwapped(current, total) ==
  <<"Progress", " ", "-", " ">> \o Str(total) \o <<"/">> \o Str(current)

\* f"Progress - {i+1}/{total_wavs}"
ProgressLine(current, total) ==
  <<"Progress", " ", "-", " ">> \o Str(current) \o <<"/">> \o Str(total)

\* A variant that swaps each clip inside the loop, right after its checks.
LogProgressEagerSwap(j) ==
  /\ pc[j] = "progress"
  /\ LET clip == loc[j].i + 1
         total == Len(loc[j].wavs)
         line == ProgressLine(clip, total)
         old_path == loc[j].path
         new_path == loc[j].new_path
     IN /\ ops' = [ops EXCEPT ![j] = @ \o <<Op("close", clip, old_path),
                                             Op("remove", clip, old_path),
                                             Op("rename", clip, new_path)>>]
        /\ fs' = IF new_path = old_path
                   THEN [fs EXCEPT !.files[old_path] = Absent]
                   ELSE [fs EXCEPT !.files[old_path] = fs.files[new_path],
                                   !.files[new_path] = Absent]
        /\ channel' = Append(channel, LogEvent(j, line))
        /\ loc' = [loc EXCEPT ![j].i = clip]
        /\ Goto(j, IF clip < total THEN "write_clip" ELSE "swap")
  /\ UNCHANGED <<bridge, archive, archiveOnDisk, fs0, requests, thread, exc, failStep,
                 result, raised, probed, startedAt>>

\* The `with` block ends (the clip file is closed), the progress line is
\* logged and the loop goes on (lines 188, 202).
LogProgress(j) ==
  /\ pc[j] = "progress"
  /\ LET clip == loc[j].i + 1
         total == Len(loc[j].wavs)
         line == ProgressLine(clip, total)
     IN /\ ops' = [ops EXCEPT ![j] = Append(@, Op("close", clip, loc[j].path))]
        /\ IF LogRaises(line)
             THEN /\ Fail(j, SocketIOHandlerEmit(line).exc, "progress")
                  /\ UNCHANGED <<loc, channel>>
             ELSE /\ channel' = Append(channel, LogEvent(j, line))
                  /\ loc' = [loc EXCEPT ![j].i = clip]
                  /\ Goto(j, IF clip < total THEN "write_clip" ELSE "swap")
                  /\ UNCHANGED <<exc, failStep>>
  /\ UNCHANGED <<bridge, archive, archiveOnDisk, fs, fs0, requests, thread,
                 result, raised, probed, startedAt>>

\* "Deleting temp files" and the start of the loop over filenames.items()
\* (lines 205-206)
SwapBegin(j) ==
  /\ pc[j] = "swap"
  /\ channel' = Append(channel, LogEvent(j, <<"Deleting temp files">>))
  /\ loc' = [loc EXCEPT ![j].k = 1]
  /\ Goto(j, "swap_remove")
  /\ UNCHANGED <<bridge, archive, archiveOnDisk, fs, fs0, requests, thread, exc, failStep,
                 result, raised, ops, probed, startedAt>>

\* os.remove(old_path) (line 207)
SwapRemove(j) ==
  /\ pc[j] = "swap_remove"
  /\ LET old_path == loc[j].filenames[loc[j].k][1] IN
     /\ ops' = [ops EXCEPT ![j] = Append(@, Op("remove", loc[j].k, old_path))]
     /\ IF fs.files[old_path] = Absent
          THEN /\ Fail(j, Exc("FileNotFoundError", old_path), "swap")
               /\ fs' = fs
          ELSE /\ fs' = [fs EXCEPT !.files[old_path] = Absent]
               /\ Goto(j, "swap_rename")
               /\ UNCHANGED <<exc, failStep>>
  /\ UNCHANGED <<bridge, archive, archiveOnDisk, fs0, requests, thread, loc,
                 result, raised, probed, startedAt, channel>>

\* os.rename(new_path, old_path) and the next item (lines 206, 208)
SwapRename(j) ==
  /\ pc[j] = "swap_rename"
  /\ LET old_path == loc[j].filenames[loc[j].k][1]
         new_path == loc[j].filenames[loc[j].k][2]
     IN
     /\ ops' = [ops EXCEPT ![j] = Append(@, Op("rename", loc[j].k, new_path))]
     /\ IF fs.files[new_path] = Absent
          THEN /\ Fail(j, Exc("FileNotFoundError", new_path), "swap")
               /\ UNCHANGED <<fs, loc>>
          ELSE /\ fs' = [fs EXCEPT !.files[old_path] = fs.files[new_path],
                                   !.files[new_path] = Absent]
               /\ loc' = [loc EXCEPT ![j].k = @ + 1]
               /\ Goto(j, IF loc[j].k < Len(loc[j].filenames)
                            THEN "swap_remove" ELSE "info")
               /\ UNCHANGED <<exc, failStep>>
  /\ UNCHANGED <<bridge, archive, archiveOnDisk, fs0, requests, thread,
                 result, raised, probed, startedAt, channel>>

\* A variant that carries on when save_dataset_info fails.
SaveDatasetInfoSwallow(j) ==
  /\ pc[j] = "info"
  /\ channel' = Append(channel, LogEvent(j, <<"Creating info file">>))
  /\ ops' = [ops EXCEPT ![j] = Append(@, Op("info", Len(loc[j].clip_lengths), <<>>))]
  /\ \/ fs' = [fs EXCEPT !.info = "new"]
     \/ fs' = fs
  /\ pc' = [pc EXCEPT ![j] = "cleanup"]
  /\ UNCHANGED <<bridge, archive, archiveOnDisk, fs0, requests, thread, loc, exc,
                 failStep, result, raised, probed, startedAt>>

\* "Creating info file" and save_dataset_info, which writes info.json or
\* fails (lines 211-217)
SaveDatasetInfo(j) ==
  /\ pc[j] = "info"
  /\ channel' = Append(channel, LogEvent(j, <<"Creating info file">>))
  /\ ops' = [ops EXCEPT ![j] = Append(@, Op("info", Len(loc[j].clip_lengths), <<>>))]
  /\ \/ /\ fs' = [fs EXCEPT !.info = "new"]
        /\ Goto(j, "cleanup")
        /\ UNCHANGED <<exc, failStep>>
     \/ /\ Fail(j, Exc("InfoError", <<"save_dataset_info">>), "info")
        /\ fs' = fs
  /\ UNCHANGED <<bridge, archive, archiveOnDisk, fs0, requests, thread, loc,
                 result, raised, probed, startedAt>>

\* A variant whose handler also removes the destination tree.
ExceptCleanupRollback(j) ==
  /\ pc[j] = "cleanup_exc"
  /\ ops' = [ops EXCEPT ![j] = Append(@, Op("remove_archive", 0, <<>>))]
  /\ archiveOnDisk' = FALSE
  /\ fs' = [destDir |-> FALSE, wavsDir |-> FALSE, metadata |-> "none",
            info |-> "none", files |-> [p \in WavPaths |-> [kind |-> "absent", clip |-> 0]]]
  /\ exc' = [exc EXCEPT ![j] =
               IF archiveOnDisk THEN @ ELSE Exc("FileNotFoundError", <<"dataset">>)]
  /\ result' = [result EXCEPT ![j] = "raised"]
  /\ pc' = [pc EXCEPT ![j] = "emit_error"]
  /\ UNCHANGED <<bridge, archive, fs0, requests, thread, loc, failStep,
                 raised, probed, startedAt, channel>>

\* A variant whose handler re-raises without removing the archive.
ExceptCleanupNoRemove(j) ==
  /\ pc[j] = "cleanup_exc"
  /\ result' = [result EXCEPT ![j] = "raised"]
  /\ Goto(j, "emit_error")
  /\ UNCHANGED <<bridge, archive, archiveOnDisk, fs, fs0, requests, thread, loc, exc,
                 failStep, raised, ops, probed, startedAt, channel>>

\* except Exception as e: os.remove(dataset); raise e (lines 218-220).
\* A missing archive makes os.remove raise in place of e.
ExceptCleanup(j) ==
  /\ pc[j] = "cleanup_exc"
  /\ ops' = [ops EXCEPT ![j] = Append(@, Op("remove_archive", 0, <<>>))]
  /\ archiveOnDisk' = FALSE
  /\ exc' = [exc EXCEPT ![j] =
               IF archiveOnDisk THEN @ ELSE Exc("FileNotFoundError", <<"dataset">>)]
  /\ result' = [result EXCEPT ![j] = "raised"]
  /\ Goto(j, "emit_error")
  /\ UNCHANGED <<bridge, archive, fs, fs0, requests, thread, loc, failStep,
                 raised, probed, startedAt, channel>>

\* os.remove(dataset) after the try statement (line 222)
FinalCleanup(j) ==
  /\ pc[j] = "cleanup"
  /\ ops' = [ops EXCEPT ![j] = Append(@, Op("remove_archive", 0, <<>>))]
  /\ archiveOnDisk' = FALSE
  /\ IF archiveOnDisk
       THEN /\ result' = [result EXCEPT ![j] = "returned"]
            /\ Goto(j, "emit_done")
            /\ UNCHANGED <<exc, failStep>>
       ELSE /\ result' = [result EXCEPT ![j] = "raised"]
            /\ exc' = [exc EXCEPT ![j] = Exc("FileNotFoundError", <<"dataset">>)]
            /\ failStep' = [failStep EXCEPT ![j] = "cleanup"]
            /\ Goto(j, "emit_error")
  /\ UNCHANGED <<bridge, archive, fs, fs0, requests, thread, loc,
                 raised, probed, startedAt, channel>>

(***************************************************************************)
(* The tail of background_task.                                            *)
(***************************************************************************)
\* A variant that reports every failure under the base class name.
ErrorPayloadBaseClass(e) ==
  [NoPayload EXCEPT !.type = "Exception", !.text = e.text,
                    !.stacktrace = <<"Traceback", e.type>>]

\* error = {"type": e.__class__.__name__, "text": str(e), "stacktrace": ...}
ErrorPayload(e) ==
  [NoPayload EXCEPT !.type = e.type, !.text = e.text,
                    !.stacktrace = <<"Traceback", e.type>>]

\* socketio.emit("error", error, namespace="/voice") (lines 56-58)
EmitError(j) ==
  /\ pc[j] = "emit_error"
  /\ channel' = Append(channel, Event(j, "error", ErrorPayload(exc[j])))
  /\ Goto(j, "reraise")
  /\ UNCHANGED <<bridge, archive, archiveOnDisk, fs, fs0, requests, thread, loc, exc,
                 failStep, result, raised, ops, probed, startedAt>>

\* A variant without `raise e`: control falls through to the 'done' emit.
ReraiseFallsThrough(j) ==
  /\ pc[j] = "reraise"
  /\ Goto(j, "emit_done")
  /\ UNCHANGED <<bridge, archive, archiveOnDisk, fs, fs0, requests, thread, loc, exc,
                 failStep, result, raised, ops, probed, startedAt, channel>>

\* raise e (line 59): the background task ends with the exception
Reraise(j) ==
  /\ pc[j] = "reraise"
  /\ raised' = [raised EXCEPT ![j] = exc[j]]
  /\ Goto(j, "finished")
  /\ UNCHANGED <<bridge, archive, archiveOnDisk, fs, fs0, requests, thread, loc, exc,
                 failStep, result, ops, probed, startedAt, channel>>

\* socketio.emit("done", {"text": None}, namespace="/voice") (line 61)
EmitDone(j) ==
  /\ pc[j] = "emit_done"
  /\ channel' = Append(channel, Event(j, "done", [NoPayload EXCEPT !.text = NoneText]))
  /\ Goto(j, "finished")
  /\ UNCHANGED <<bridge, archive, archiveOnDisk, fs, fs0, requests, thread, loc, exc,
                 failStep, result, raised, ops, probed, startedAt>>

Next ==
  \E j \in Jobs :
    \/ StartProgressThread(j)
    \/ Sleep(j)
    \/ OpenArchive(j)
    \/ Validate(j)
    \/ Mkdirs(j)
    \/ SaveMetadata(j)
    \/ WriteClip(j)
    \/ ConvertAudio(j)
    \/ ProbeDuration(j)
    \/ LogProgress(j)
    \/ SwapBegin(j)
    \/ SwapRemove(j)
    \/ SwapRename(j)
    \/ SaveDatasetInfo(j)
    \/ ExceptCleanup(j)
    \/ FinalCleanup(j)
    \/ EmitError(j)
    \/ Reraise(j)
    \/ EmitDone(j)

Spec == Init /\ [][Next]_vars


(***************************************************************************)
(* Properties of the job runner.                                           *)
(***************************************************************************)
TerminalEvents == {"done", "error"}

EventsOf(j) == {t \in 1..Len(channel) : channel[t].job = j}

TerminalsOf(j) == {t \in EventsOf(j) : channel[t].event \in TerminalEvents}

\* started, and its terminal event not yet emitted
Running(j) == pc[j] # "idle" /\ TerminalsOf(j) = {}

\* C1: a job whose task returned or raised has emitted exactly one terminal
\* event, 'done' if the task returned and 'error' if it raised, never both,
\* and that event comes after every other event of the job.
C1_OneTerminalEventLast ==
  \A j \in Jobs :
    /\ Cardinality(TerminalsOf(j)) <= 1
    /\ \A t \in TerminalsOf(j) : \A u \in EventsOf(j) : u <= t
    /\ \A t \in TerminalsOf(j) :
         channel[t].event = IF result[j] = "returned" THEN "done" ELSE "error"
    /\ pc[j] = "finished" =>
         /\ result[j] \in {"returned", "raised"}
         /\ Cardinality(TerminalsOf(j)) = 1

\* A job that raised after its task had emitted log and progress events.
C1_Witness ==
  \E j \in Jobs :
    /\ pc[j] = "finished"
    /\ result[j] = "raised"
    /\ \E t \in EventsOf(j) : channel[t].event = "progress"
    /\ \E t \in EventsOf(j) : channel[t].event = "logs"

\* C2: a second start while a job is still running is rejected, so at most
\* one job is running at any time.
C2_AtMostOneJobRunning ==
  Cardinality({j \in Jobs : Running(j)}) <= 1

\* C3: on the shared channel a terminal event is the last event of its run:
\* whatever follows it belongs to a job started after it was emitted.
C3_TerminalEventStrictlyLast ==
  \A t \in 1..Len(channel) :
    channel[t].event \in TerminalEvents =>
      \A u \in (t + 1)..Len(channel) : startedAt[channel[u].job] >= t

\* C10: when the task raised, background_task emits one 'error' event with
\* the exception's class name and message, and then re-raises that exception.
C10_ErrorEmittedThenReraised ==
  \A j \in Jobs :
    /\ (pc[j] \in {"reraise", "finished"} /\ result[j] = "raised") =>
         /\ exc[j] # NoExc
         /\ \E t \in EventsOf(j) :
              /\ channel[t].event = "error"
              /\ channel[t].payload.type = exc[j].type
              /\ channel[t].payload.text = exc[j].text
    /\ (pc[j] = "finished" /\ result[j] = "raised") => raised[j] = exc[j]
    /\ raised[j] # NoExc =>
         \E t \in EventsOf(j) : channel[t].event = "error"

\* A job ended by re-raising the assertion of a failed validation.
C10_Witness ==
  \E j \in Jobs :
    /\ pc[j] = "finished"
    /\ raised[j].type = "AssertionError"
    /\ failStep[j] = "validate"


(***************************************************************************)
(* Properties of import_dataset.                                           *)
(***************************************************************************)
OpsOf(j, names) == {n \in 1..Len(ops[j]) : ops[j][n].op \in names}

\* import_dataset has returned or raised
Ended(j) == pc[j] \in {"emit_done", "emit_error", "reraise", "finished"}

\* an exception is on its way out of import_dataset, or has left it
Failing(j) == pc[j] \in {"cleanup_exc", "emit_error", "reraise", "finished"}
                /\ exc[j] # NoExc

ProgressEventsOf(j) == {t \in EventsOf(j) : channel[t].event = "progress"}

\* C4: after every run of import_dataset the archive is gone, and the run
\* attempted the deletion exactly once.
C4_ArchiveDeletedExactlyOnce ==
  \A j \in Jobs :
    /\ Cardinality(OpsOf(j, {"remove_archive"})) <= 1
    /\ Ended(j) => /\ ~archiveOnDisk
                   /\ Cardinality(OpsOf(j, {"remove_archive"})) = 1

\* A run that failed in descriptor generation, the last step that can fail.
C4_Witness ==
  \E j \in Jobs : Ended(j) /\ failStep[j] = "info" /\ ~archiveOnDisk

\* The archive's structural defects, as the claim lists them.
NoMetadataAtRoot == \A n \in 1..Len(archive.names) : archive.names[n] # MetadataName

NoWavsFolder ==
  \A n \in 1..Len(archive.names) :
    ~(Len(archive.names[n]) >= 2 /\ archive.names[n][1] = "wavs"
                                 /\ archive.names[n][2] = "/")

WavEntries ==
  {n \in 1..Len(archive.names) :
     LET x == archive.names[n] IN
     Len(x) >= 3 /\ x[1] = "wavs" /\ x[2] = "/" /\ x[Len(x)] = ".wav"}

RowCount == Cardinality({n \in 1..Len(archive.metadata) : archive.metadata[n] # ""})

StructurallyInvalid ==
  archive.ok /\ (NoMetadataAtRoot \/ NoWavsFolder \/ WavEntries = {}
                   \/ Cardinality(WavEntries) # RowCount)

\* C5: with a structurally invalid archive the destination is never touched,
\* and every job that got past validation is failing.
C5_InvalidArchiveLeavesDestination ==
  StructurallyInvalid =>
    /\ fs = fs0
    /\ \A j \in Jobs :
         pc[j] \notin {"idle", "sleep", "open", "validate"} => Failing(j)

\* A run that failed on a count mismatch alone.
C5_Witness ==
  \E j \in Jobs :
    /\ pc[j] = "finished"
    /\ failStep[j] = "validate"
    /\ ~NoMetadataAtRoot /\ WavEntries # {}
    /\ Cardinality(WavEntries) # RowCount

\* C6: when import_dataset returns, wavs/ holds exactly one normalized file
\* per metadata row and nothing else, beside metadata.csv and the descriptor.
C6_OneNormalizedFilePerRow ==
  \A j \in Jobs :
    result[j] = "returned" =>
      LET present == {p \in WavPaths : fs.files[p] # Absent} IN
      /\ Cardinality(present) = RowCount
      /\ \A p \in present : fs.files[p].kind = "norm"
      /\ fs.metadata = "new"
      /\ fs.info = "new"

\* C7: a probed duration out of bounds at clip n ends the run there.
C7_BadDurationStopsRun ==
  \A j \in Jobs :
    \A n \in 1..Len(probed[j]) :
      (probed[j][n] < MIN_LENGTH \/ probed[j][n] > MAX_LENGTH) =>
        /\ n = Len(probed[j])
        /\ Failing(j)
        /\ \A m \in OpsOf(j, {"write", "convert", "probe"}) : ops[j][m].clip <= n
        /\ OpsOf(j, {"remove", "rename", "info"}) = {}
        /\ Cardinality(ProgressEventsOf(j)) = n - 1
        /\ \A t \in ProgressEventsOf(j) :
             channel[t].payload.number \in {<<" ">> \o Str(m) : m \in 1..(n - 1)}

\* The second of three clips probed too long; the run is over.
C7_Witness ==
  \E j \in Jobs :
    /\ pc[j] = "finished"
    /\ Len(loc[j].wavs) = 3
    /\ probed[j] = <<MIN_LENGTH, MAX_LENGTH + 1>>

\* C8: the swap starts only after the loop has succeeded for every clip, and
\* a failure inside the loop leaves every written original in place.
C8_SwapOnlyAfterWholeLoop ==
  \A j \in Jobs :
    /\ OpsOf(j, {"remove", "rename"}) # {} =>
         /\ loc[j].i = Len(loc[j].wavs)
         /\ Len(loc[j].clip_lengths) = Len(loc[j].wavs)
         /\ Cardinality(ProgressEventsOf(j)) = Len(loc[j].wavs)
         /\ \A m \in OpsOf(j, {"write", "convert", "probe"}) :
              \A r \in OpsOf(j, {"remove", "rename"}) : m < r
    /\ failStep[j] \in {"convert", "probe", "duration", "progress"} =>
         /\ OpsOf(j, {"remove", "rename"}) = {}
         /\ \A m \in OpsOf(j, {"write"}) : fs.files[ops[j][m].path] # Absent

\* The second clip failed its duration check after the first had passed.
C8_Witness ==
  \E j \in Jobs :
    /\ pc[j] = "finished"
    /\ failStep[j] = "duration"
    /\ Len(probed[j]) = 2
    /\ Cardinality(OpsOf(j, {"write"})) = 2

\* C9: a destination that exists before the write phase is left as it was,
\* and every job that reaches the write phase fails.
C9_ExistingDestinationUntouched ==
  fs0.destDir =>
    /\ fs = fs0
    /\ \A j \in Jobs :
         pc[j] \notin {"idle", "sleep", "open", "validate", "mkdirs"} => Failing(j)

\* A run over a valid archive that failed on a dataset imported earlier.
C9_Witness ==
  \E j \in Jobs :
    /\ pc[j] = "finished"
    /\ failStep[j] = "mkdirs"
    /\ fs0.wavsDir
    /\ exc[j].type = "FileExistsError"


\* the steps of import_dataset that come after both os.makedirs succeeded
StepsAfterCreation ==
  {"save_metadata", "convert", "probe", "duration", "progress", "swap", "info",
   "cleanup"}

FailedAfterCreation(j) == Failing(j) /\ failStep[j] \in StepsAfterCreation

\* C11: once import_dataset has failed at a step after the destination was
\* created, the destination is never changed again (the handler removes the
\* archive only): both directories and every clip file written stay.
C11_NoRollbackOnFailure ==
  /\ [](\A j \in Jobs :
          FailedAfterCreation(j) =>
            /\ fs.destDir /\ fs.wavsDir
            /\ Ended(j) => ~archiveOnDisk)
  /\ [][(\E j \in Jobs : FailedAfterCreation(j)) => fs' = fs]_vars

\* Scenario D: the only clip probed at MAX_LENGTH + 1; the destination is
\* left with metadata.csv and the clip's files but no descriptor.
C11_Witness ==
  \E j \in Jobs :
    /\ pc[j] = "finished"
    /\ failStep[j] = "duration"
    /\ probed[j] = <<MAX_LENGTH + 1>>
    /\ fs.destDir /\ fs.metadata = "new" /\ fs.info = "none"
    /\ \E p \in WavPaths : fs.files[p] # Absent


(***************************************************************************)
(* The logging bridge on its own: SocketIOHandler.emit applied to any log  *)
(* line a task may pass to logging.info.                                   *)
(***************************************************************************)
StatusMarker == <<"Status", " ", "-">>

LineChunks ==
  {<<"Progress">>, <<"Status">>, StatusMarker, <<" ">>, <<"-">>, <<"/">>,
   <<"1">>, <<"x">>}

RECURSIVE Flatten(_)
Flatten(cs) == IF cs = <<>> THEN <<>> ELSE cs[1] \o Flatten(Tail(cs))

\* the log lines: up to MaxChunks pieces, one after the other
LogLines == {Flatten(cs) : cs \in UNION {[1..m -> LineChunks] : m \in 0..MaxChunks}}

InitBridge ==
  /\ bridge \in {[text |-> line, status |-> "pending", exc |-> NoExc] : line \in LogLines}
  /\ requests = 0
  /\ archive = [ok |-> FALSE, names |-> <<>>, metadata |-> <<>>]
  /\ archiveOnDisk = FALSE
  /\ fs0 = EmptyDest
  /\ fs = fs0
  /\ thread = 0
  /\ pc = [j \in Jobs |-> "idle"]
  /\ loc = [j \in Jobs |-> NoLoc]
  /\ exc = [j \in Jobs |-> NoExc]
  /\ failStep = [j \in Jobs |-> "none"]
  /\ result = [j \in Jobs |-> "none"]
  /\ raised = [j \in Jobs |-> NoExc]
  /\ ops = [j \in Jobs |-> <<>>]
  /\ probed = [j \in Jobs |-> <<>>]
  /\ startedAt = [j \in Jobs |-> 0]
  /\ channel = <<>>

\* logger.handle(record) -> SocketIOHandler.emit(record) (lines 21-30): one
\* socketio.emit, or the exception of line 24 or 25 leaves the handler.
HandlerEmit ==
  /\ bridge.status = "pending"
  /\ LET h == SocketIOHandlerEmit(bridge.text) IN
     IF h.exc # NoExc
       THEN /\ bridge' = [bridge EXCEPT !.status = "raised", !.exc = h.exc]
            /\ channel' = channel
       ELSE /\ bridge' = [bridge EXCEPT !.status = "emitted"]
            /\ channel' = Append(channel, Event(1, h.event, h.payload))
  /\ UNCHANGED <<archive, archiveOnDisk, fs, fs0, requests, thread, pc, loc, exc,
                 failStep, result, raised, ops, probed, startedAt>>

NextBridge == HandlerEmit

SpecBridge == InitBridge /\ [][NextBridge]_vars

BeginsWith(text, word) == Len(text) >= 1 /\ text[1] = word

\* C12: for every log line the handler emits exactly one event and never
\* fails: 'progress' for a line beginning with "Progress", else 'status' for
\* one beginning with "Status", else 'logs' with the full line.
C12_BridgeEmitsOneEventNeverFails ==
  bridge.status \in {"emitted", "raised"} =>
    /\ bridge.status = "emitted"
    /\ Len(channel) = 1
    /\ channel[1].event =
         IF BeginsWith(bridge.text, "Progress") THEN "progress"
         ELSE IF BeginsWith(bridge.text, "Status") THEN "status"
         ELSE "logs"
    /\ channel[1].event = "logs" => channel[1].payload.text = bridge.text

\* the line without its leading "Status -" marker, if it has one
StripLeadingMarker(text) ==
  IF Len(text) >= 3 /\ text[1] = "Status" /\ text[2] = " " /\ text[3] = "-"
  THEN [n \in 1..(Len(text) - 3) |-> text[n + 3]]
  ELSE text

\* C13: the status event of a line beginning with "Status" carries the line
\* with only its leading "Status -" removed; later occurrences stay.
C13_StatusStripsLeadingMarkerOnly ==
  (bridge.status = "emitted" /\ BeginsWith(bridge.text, "Status")) =>
    /\ channel[1].event = "status"
    /\ channel[1].payload.text = StripLeadingMarker(bridge.text)


(***************************************************************************)
(* Progress reporting of import_dataset.                                   *)
(***************************************************************************)
NotSpace(tok) == tok # " "

\* the number a client reads from an event's string, blanks around it ignored
ParseInt(text) ==
  LET t == SelectSeq(text, NotSpace) IN
  IF Len(t) = 1 /\ \E n \in 1..Len(Digits) : Digits[n] = t[1]
  THEN CHOOSE n \in 1..Len(Digits) : Digits[n] = t[1]
  ELSE -1

\* the progress events of job j, in the order of the channel
ProgressSeq(j) ==
  LET IsProgress(e) == e.job = j /\ e.event = "progress" IN SelectSeq(channel, IsProgress)

\* C14: the k-th progress event of a run over N clips reads k/N and comes
\* only after clip k passed its write, normalization and duration check; a
\* successful run has emitted exactly N of them, all before 'done'.
C14_ProgressCountsClips ==
  \A j \in Jobs :
    LET events == ProgressSeq(j)
        N == Len(loc[j].wavs)
    IN /\ Len(events) <= N
       /\ Len(events) = loc[j].i
       /\ \A k \in 1..Len(events) :
            /\ ParseInt(events[k].payload.number) = k
            /\ ParseInt(events[k].payload.total) = N
            /\ Len(loc[j].clip_lengths) >= k
            /\ \A name \in {"write", "convert", "probe"} :
                 \E m \in OpsOf(j, {name}) : ops[j][m].clip = k
       /\ result[j] = "returned" => Len(events) = N
       /\ \A t \in TerminalsOf(j) : \A u \in ProgressEventsOf(j) : u < t

\* A run over three clips that returned and emitted 'done'.
C14_Witness ==
  \E j \in Jobs :
    /\ pc[j] = "finished"
    /\ result[j] = "returned"
    /\ Len(ProgressSeq(j)) = 3
    /\ channel[Len(channel)].event = "done"


\* C15: a clip's destination file is closed before convert_audio is invoked
\* on it and before its duration is probed.
C15_ClipClosedBeforeConvert ==
  \A j \in Jobs :
    \A m \in OpsOf(j, {"convert", "probe"}) :
      \E c \in OpsOf(j, {"close"}) : c < m /\ ops[j][c].clip = ops[j][m].clip


\* the position in the archive listing of its k-th .wav entry under wavs/
KthWavEntry(k) ==
  CHOOSE n \in WavEntries : Cardinality({m \in WavEntries : m < n}) = k - 1

\* C16: when save_dataset_info is invoked every recorded mapping has been
\* swapped, and clip_lengths has one entry per metadata row, the k-th being
\* the duration probed for the k-th clip of the archive listing, in bounds.
C16_DescriptorAfterSwapWithAllDurations ==
  \A j \in Jobs :
    OpsOf(j, {"info"}) # {} =>
      LET lengths == loc[j].clip_lengths IN
      /\ Cardinality(OpsOf(j, {"info"})) = 1
      /\ Cardinality(OpsOf(j, {"remove"})) = Len(loc[j].filenames)
      /\ Cardinality(OpsOf(j, {"rename"})) = Len(loc[j].filenames)
      /\ \A m \in OpsOf(j, {"remove", "rename", "write", "convert", "probe"}) :
           \A d \in OpsOf(j, {"info"}) : m < d
      /\ \A d \in OpsOf(j, {"info"}) : ops[j][d].clip = Len(lengths)
      /\ Len(lengths) = RowCount
      /\ Len(lengths) = Cardinality(WavEntries)
      /\ \A k \in 1..Len(lengths) :
           /\ lengths[k] >= MIN_LENGTH /\ lengths[k] <= MAX_LENGTH
           /\ lengths[k] = probed[j][k]
           /\ loc[j].wavs[k] = archive.names[KthWavEntry(k)]
           /\ \E m \in OpsOf(j, {"probe"}) :
                /\ ops[j][m].clip = k
                /\ Cardinality({q \in OpsOf(j, {"probe"}) : q < m}) = k - 1

\* The descriptor generated for three clips of differing durations.
C16_Witness ==
  \E j \in Jobs :
    /\ OpsOf(j, {"info"}) # {}
    /\ fs.info = "new"
    /\ loc[j].clip_lengths = <<MIN_LENGTH, MAX_LENGTH, MIN_LENGTH>>


DoneEventsOf(j) == {t \in EventsOf(j) : channel[t].event = "done"}

\* C17: a job that emitted 'done' has run the whole pipeline: every mapping
\* swapped, the descriptor written, the archive removed; a job in which any
\* step failed, the final os.remove included, ends with 'error', not 'done'.
C17_DoneMeansPipelineComplete ==
  \A j \in Jobs :
    /\ DoneEventsOf(j) # {} =>
         /\ failStep[j] = "none" /\ exc[j] = NoExc
         /\ ~archiveOnDisk
         /\ Cardinality(OpsOf(j, {"remove_archive"})) = 1
         /\ fs.info = "new"
         /\ Cardinality(OpsOf(j, {"info"})) = 1
         /\ Len(loc[j].filenames) >= 1
         /\ Cardinality(OpsOf(j, {"rename"})) = Len(loc[j].filenames)
         /\ \A p \in WavPaths : fs.files[p] # Absent => fs.files[p].kind = "norm"
    /\ (failStep[j] # "none" /\ pc[j] = "finished") =>
         /\ DoneEventsOf(j) = {}
         /\ \E t \in EventsOf(j) : channel[t].event = "error"

\* The final os.remove failed (another job had removed the archive) after
\* the descriptor was written: the job ended with 'error'.
C17_Witness ==
  \E j \in Jobs :
    /\ pc[j] = "finished"
    /\ failStep[j] = "cleanup"
    /\ fs.info = "new"
    /\ channel[Len(channel)].job = j
    /\ channel[Len(channel)].event = "error"


\* the swap phase of job j has begun (it may have ended, or failed midway)
SwapStarted(j) ==
  pc[j] \in {"swap_remove", "swap_rename", "info", "cleanup"}
    \/ failStep[j] \in {"swap", "info", "cleanup"}
    \/ result[j] = "returned"

\* C18: during and after the swap every recorded mapping has its original
\* or its normalized file on disk, whatever path convert_audio returned.
C18_NoClipLostInSwap ==
  \A j \in Jobs :
    SwapStarted(j) =>
      \A n \in 1..Len(loc[j].filenames) :
        \/ fs.files[loc[j].filenames[n][1]] # Absent
        \/ fs.files[loc[j].filenames[n][2]] # Absent

=============================================================================
